---- MODULE Spec2Model ----
(***************************************************************************)
(* Byte-level model of the account serializer of rust_test_helper:         *)
(* serialize_account_solana_format, serialize_account_info_as_runtime and  *)
(* the fixture generators that drive them                                  *)
(* (src/rust_test_helper/src/serialize_solana_format.rs).                  *)
(*                                                                         *)
(* A Vec<u8> is a sequence of numbers in 0..255.  A 64-bit unsigned value  *)
(* (u64, usize) is kept as four 16-bit limbs, least significant first, so  *)
(* that lengths of 2^32 and more can be written down; a u32 is two limbs.  *)
(***************************************************************************)
EXTENDS Naturals, Sequences, FiniteSets

VARIABLES
    pc,        \* "idle", "building" (a generator is appending), "written"
    gen,       \* the generator that owns the buffer
    buffer,    \* Vec<u8> being built
    plan,      \* the slots appended so far, one entry per slot, in order
    num,       \* number of slots the plan generator was asked to encode
    lamports,  \* the caller's lamports local after the last serializer call
    data,      \* the caller's data local after the last serializer call
    len        \* data.len() of the last record header written (usize)

vars == <<pc, gen, buffer, plan, num, lamports, data, len>>

----------------------------------------------------------------------------
(* Bounds of the model *)

\* slots of a freely chosen plan
MaxSlots == 3

\* calls of serialize_account_info_as_runtime on one runtime_buffer
MaxCalls == 2

\* data bytes of an account passed to serialize_account_info_as_runtime
MaxDataLen == 3

----------------------------------------------------------------------------
(* Program constants *)

\* the non-duplicate marker, also written in the duplicate_index position
NON_DUP_MARKER == 255

\* largest value of the one-byte count prefix
U8_MAX == 255

----------------------------------------------------------------------------
(* Integer types and casts *)

\* `flag as u8`
bool_as_u8(b) == IF b THEN 1 ELSE 0

\* `n as u8`: the low eight bits
as_u8(n) == n % 256

\* a 64-bit value (u64, usize) below 2^31, as four 16-bit limbs
u64(n) == <<n % 65536, (n \div 65536) % 65536, 0, 0>>

\* data.len(): a usize
vec_len(v) == u64(Len(v))

\* `x as u32`: truncation to the low 32 bits
as_u32(w) == SubSeq(w, 1, 2)

\* `x as u64` of a usize: same width
as_u64(w) == w

\* to_le_bytes with the bytes in the opposite order (to_be_bytes)
to_le_bytes_BigEndian(w) ==
    [i \in 1..(2 * Len(w)) |->
        LET l == w[Len(w) + 1 - ((i + 1) \div 2)]
        IN  IF i % 2 = 1 THEN l \div 256 ELSE l % 256]

\* to_le_bytes that keeps one byte of each limb
to_le_bytes_LowByteOnly(w) ==
    [i \in 1..Len(w) |-> w[i] % 256]

\* to_le_bytes of a u32 or u64: two bytes per limb, low byte first
to_le_bytes(w) ==
    [i \in 1..(2 * Len(w)) |->
        LET l == w[(i + 1) \div 2]
        IN  IF i % 2 = 1 THEN l % 256 ELSE l \div 256]

\* vec![b; n]
vec_fill(b, n) == [i \in 1..n |-> b]

----------------------------------------------------------------------------
(* Pubkey: 32 bytes *)

\* Pubkey::default()
PubkeyDefault == [i \in 1..32 |-> 0]

\* key_bytes = [0u8; 32]; key_bytes[0] = b; Pubkey::new_from_array(key_bytes)
PubkeyFirstByte(b) == [i \in 1..32 |-> IF i = 1 THEN b ELSE 0]

\* Pubkey::to_bytes(): the 32 bytes of the key
to_bytes(key) == key

----------------------------------------------------------------------------
(* The serializers *)

\* non_dup_header with the owner written before the key
non_dup_header_KeyOwnerSwapped(buf, key, is_signer, is_writable, lamps, data_len, owner, executable) ==
    LET b1 == Append(buf, NON_DUP_MARKER)
        b2 == Append(b1, NON_DUP_MARKER)
        b3 == Append(b2, bool_as_u8(is_signer))
        b4 == Append(b3, bool_as_u8(is_writable))
        b5 == Append(b4, bool_as_u8(executable))
        original_len == as_u32(data_len)
        b6 == b5 \o to_le_bytes(original_len)
        b7 == b6 \o to_bytes(owner)
        b8 == b7 \o to_bytes(key)
        b9 == b8 \o to_le_bytes(u64(lamps))
        data_len64 == as_u64(data_len)
    IN  b9 \o to_le_bytes(data_len64)

\* is_non_dup branch of serialize_account_solana_format up to and including
\* the data_len field; data_len is data.len()
non_dup_header(buf, key, is_signer, is_writable, lamps, data_len, owner, executable) ==
    LET b1 == Append(buf, NON_DUP_MARKER)
        b2 == Append(b1, NON_DUP_MARKER)
        b3 == Append(b2, bool_as_u8(is_signer))
        b4 == Append(b3, bool_as_u8(is_writable))
        b5 == Append(b4, bool_as_u8(executable))
        original_len == as_u32(data_len)
        b6 == b5 \o to_le_bytes(original_len)
        b7 == b6 \o to_bytes(key)
        b8 == b7 \o to_bytes(owner)
        b9 == b8 \o to_le_bytes(u64(lamps))
        data_len64 == as_u64(data_len)
    IN  b9 \o to_le_bytes(data_len64)

\* serialize_account_solana_format whose duplicate branch replaces the buffer
\* by the index byte instead of pushing it
serialize_ClobberBuffer(buf, key, is_signer, is_writable, lamps, dat, owner, executable, is_non_dup, dup_index) ==
    [buffer |->
        IF is_non_dup
        THEN non_dup_header(buf, key, is_signer, is_writable, lamps,
                            vec_len(dat), owner, executable) \o dat
        ELSE <<dup_index>>,
     lamports |-> lamps,
     data |-> dat]

\* serialize_account_solana_format: the buffer, and the two locals passed by
\* mutable reference, after the call
serialize_account_solana_format(buf, key, is_signer, is_writable, lamps, dat, owner, executable, is_non_dup, dup_index) ==
    [buffer |->
        IF is_non_dup
        THEN non_dup_header(buf, key, is_signer, is_writable, lamps,
                            vec_len(dat), owner, executable) \o dat
        ELSE Append(buf, dup_index),
     lamports |-> lamps,
     data |-> dat]

\* AccountInfo::new(key, is_signer, is_writable, lamports, data, owner,
\* executable, rent_epoch)
AccountInfo(key, is_signer, is_writable, lamps, dat, owner, executable) ==
    [key |-> key, is_signer |-> is_signer, is_writable |-> is_writable,
     lamports |-> lamps, data |-> dat, owner |-> owner,
     executable |-> executable]

\* runtime_header without the duplicate_index byte after the marker
runtime_header_OneMarker(account, buf, data_len) ==
    LET b1 == Append(buf, NON_DUP_MARKER)
        b3 == Append(b1, bool_as_u8(account.is_signer))
        b4 == Append(b3, bool_as_u8(account.is_writable))
        b5 == Append(b4, bool_as_u8(account.executable))
        data_len32 == as_u32(data_len)
        b6 == b5 \o to_le_bytes(data_len32)
        b7 == b6 \o to_bytes(account.key)
        b8 == b7 \o to_bytes(account.owner)
        lamports_val == account.lamports
        b9 == b8 \o to_le_bytes(u64(lamports_val))
        data_len_64 == as_u64(data_len)
    IN  b9 \o to_le_bytes(data_len_64)

\* is_non_dup branch of serialize_account_info_as_runtime up to and including
\* the data_len field; data_len is account.data.borrow().len()
runtime_header(account, buf, data_len) ==
    LET b1 == Append(buf, NON_DUP_MARKER)
        b2 == Append(b1, NON_DUP_MARKER)
        b3 == Append(b2, bool_as_u8(account.is_signer))
        b4 == Append(b3, bool_as_u8(account.is_writable))
        b5 == Append(b4, bool_as_u8(account.executable))
        data_len32 == as_u32(data_len)
        b6 == b5 \o to_le_bytes(data_len32)
        b7 == b6 \o to_bytes(account.key)
        b8 == b7 \o to_bytes(account.owner)
        lamports_val == account.lamports
        b9 == b8 \o to_le_bytes(u64(lamports_val))
        data_len_64 == as_u64(data_len)
    IN  b9 \o to_le_bytes(data_len_64)

\* serialize_account_info_as_runtime: the buffer after the call
serialize_account_info_as_runtime(account, buf, is_non_dup) ==
    IF is_non_dup
    THEN runtime_header(account, buf, vec_len(account.data)) \o account.data
    ELSE buf

----------------------------------------------------------------------------
(* Slots and generator steps *)

\* placeholder for the account fields of a slot appended without an account
NullAccount == AccountInfo(<<>>, FALSE, FALSE, 0, <<>>, <<>>, FALSE)

\* one step of a generator: a call of serialize_account_solana_format
Call(account, is_non_dup, dup_index) ==
    [op |-> "serialize", account |-> account, is_non_dup |-> is_non_dup,
     dup_index |-> dup_index]

\* one step of a generator: buffer.push(b) of a duplicate marker
Push(b) ==
    [op |-> "push", account |-> NullAccount, is_non_dup |-> FALSE,
     dup_index |-> b]

\* one step of a generator: a call of serialize_account_info_as_runtime
Runtime(account, is_non_dup) ==
    [op |-> "runtime", account |-> account, is_non_dup |-> is_non_dup,
     dup_index |-> 0]

----------------------------------------------------------------------------
(* The fixture generators: the count byte pushed first, then the steps *)

generate_single_account_solana_format ==
    [count |-> 1,
     steps |-> <<
        Call(AccountInfo(PubkeyDefault, TRUE, TRUE, 1000, vec_fill(170, 10),
                         PubkeyDefault, FALSE), TRUE, 0) >>]

generate_multiple_accounts_solana_format ==
    [count |-> 3,
     steps |-> <<
        Call(AccountInfo(PubkeyDefault, TRUE, TRUE, 1000, vec_fill(170, 5),
                         PubkeyDefault, FALSE), TRUE, 0),
        Call(AccountInfo(PubkeyFirstByte(1), FALSE, TRUE, 2000, vec_fill(187, 10),
                         PubkeyDefault, FALSE), TRUE, 0),
        Call(AccountInfo(PubkeyFirstByte(2), FALSE, FALSE, 3000, vec_fill(204, 15),
                         PubkeyDefault, TRUE), TRUE, 0) >>]

generate_empty_data_accounts_solana_format ==
    [count |-> 2,
     steps |-> <<
        Call(AccountInfo(PubkeyDefault, TRUE, TRUE, 1000, <<>>,
                         PubkeyDefault, FALSE), TRUE, 0),
        Call(AccountInfo(PubkeyFirstByte(1), FALSE, FALSE, 2000, vec_fill(255, 4),
                         PubkeyDefault, TRUE), TRUE, 0) >>]

\* generate_accounts_with_duplicates_solana_format with a count byte that
\* leaves the duplicates out
generate_accounts_with_duplicates_Count4 ==
    [count |-> 4,
     steps |-> <<
        Call(AccountInfo(PubkeyDefault, TRUE, TRUE, 1000, vec_fill(170, 8),
                         PubkeyDefault, FALSE), TRUE, 0),
        Call(AccountInfo(PubkeyFirstByte(1), FALSE, TRUE, 2000, vec_fill(187, 12),
                         PubkeyDefault, TRUE), TRUE, 0),
        Push(0),
        Call(AccountInfo(PubkeyFirstByte(3), TRUE, FALSE, 3000, vec_fill(204, 6),
                         PubkeyDefault, FALSE), TRUE, 0),
        Push(1) >>]

generate_accounts_with_duplicates_solana_format ==
    [count |-> 5,
     steps |-> <<
        Call(AccountInfo(PubkeyDefault, TRUE, TRUE, 1000, vec_fill(170, 8),
                         PubkeyDefault, FALSE), TRUE, 0),
        Call(AccountInfo(PubkeyFirstByte(1), FALSE, TRUE, 2000, vec_fill(187, 12),
                         PubkeyDefault, TRUE), TRUE, 0),
        Push(0),
        Call(AccountInfo(PubkeyFirstByte(3), TRUE, FALSE, 3000, vec_fill(204, 6),
                         PubkeyDefault, FALSE), TRUE, 0),
        Push(1) >>]

\* for i in 0..10u8
generate_complex_iteration_solana_format ==
    [count |-> 10,
     steps |-> [k \in 1..10 |->
        LET i == k - 1
            data_len == ((i % 4) + 1) * 3
        IN  IF i = 4 THEN Push(1)
            ELSE IF i = 7 THEN Push(2)
            ELSE Call(AccountInfo(PubkeyFirstByte(i), i % 2 = 0, i % 3 # 0,
                                  (i + 1) * 500, vec_fill(160 + i, data_len),
                                  PubkeyDefault, i % 5 = 0), TRUE, 0)]]

\* Pubkey::new_unique(): a key of the library's choosing; the library writes
\* a process-wide counter into the first eight bytes, big-endian
UniqueKeys == {[i \in 1..32 |-> IF i = 8 THEN c ELSE 0] : c \in 1..2}

\* test_with_actual_account_info, key2 being the key new_unique() returned
test_with_actual_account_info(key2) ==
    [count |-> 2,
     steps |-> <<
        Runtime(AccountInfo(PubkeyDefault, TRUE, TRUE, 1000, vec_fill(170, 10),
                            PubkeyDefault, FALSE), TRUE),
        Runtime(AccountInfo(key2, FALSE, FALSE, 2000, vec_fill(187, 20),
                            PubkeyDefault, TRUE), TRUE) >>]

\* the files, in the order main and generate_solana_format_test_data write them
FixtureOrder ==
    << "solana_single_account.bin",
       "solana_multiple_accounts.bin",
       "empty_data_accounts.bin",
       "solana_accounts_with_duplicates.bin",
       "solana_complex_iteration.bin",
       "solana_actual_accountinfo.bin" >>

Fixtures == {FixtureOrder[k] : k \in 1..Len(FixtureOrder)}

\* the generator that writes file g
Fixture(g, key2) ==
    CASE g = "solana_single_account.bin" -> generate_single_account_solana_format
      [] g = "solana_multiple_accounts.bin" -> generate_multiple_accounts_solana_format
      [] g = "empty_data_accounts.bin" -> generate_empty_data_accounts_solana_format
      [] g = "solana_accounts_with_duplicates.bin" -> generate_accounts_with_duplicates_solana_format
      [] g = "solana_complex_iteration.bin" -> generate_complex_iteration_solana_format
      [] g = "solana_actual_accountinfo.bin" -> test_with_actual_account_info(key2)

----------------------------------------------------------------------------
(* Inputs of the plan generator *)

\* accounts a freely chosen plan draws its Original slots from
PlanAccounts ==
    { AccountInfo(PubkeyDefault, TRUE, TRUE, 1000, <<>>, PubkeyDefault, FALSE),
      AccountInfo(PubkeyFirstByte(1), FALSE, FALSE, 2000, vec_fill(255, 4),
                  PubkeyDefault, TRUE),
      AccountInfo(PubkeyFirstByte(255), TRUE, FALSE, 16909060, <<170, 255, 1>>,
                  PubkeyFirstByte(2), TRUE),
      AccountInfo(PubkeyFirstByte(3), FALSE, TRUE, 0, <<7>>,
                  PubkeyFirstByte(255), FALSE) }

\* the account every slot of a plan of U8_MAX or U8_MAX + 1 slots holds
BoundaryAccount ==
    AccountInfo(PubkeyFirstByte(1), TRUE, FALSE, 500, <<255>>, PubkeyDefault, FALSE)

\* the account arguments of a call with is_non_dup = false
DupCallAccount ==
    AccountInfo(PubkeyFirstByte(9), TRUE, TRUE, 77, <<1, 2>>, PubkeyDefault, FALSE)

\* dup_index arguments
DupIndices == (0..MaxSlots) \cup {NON_DUP_MARKER}

\* slot counts of the plans encoded
PlanSizes == (0..MaxSlots) \cup {U8_MAX, U8_MAX + 1}

\* data.len() values of the wide-length specification: lengths below 2^33,
\* those of 2^32 bytes and more having 1 as their third limb
WideLens == {<<a, b, c, 0>> : a \in {0, 1, 255, 65535}, b \in {0, 1, 255, 65535},
                             c \in {0, 1}}

----------------------------------------------------------------------------
(* State machine *)

\* the slots a generator has still to append
Remaining ==
    IF gen = "plan" THEN num - Len(plan)
    ELSE IF gen \in Fixtures
         THEN Len(Fixture(gen, PubkeyDefault).steps) - Len(plan)
         ELSE 0

Init ==
    /\ pc = "idle"
    /\ gen = "none"
    /\ buffer = <<>>
    /\ plan = <<>>
    /\ num = 0
    /\ lamports = 0
    /\ data = <<>>
    /\ len = u64(0)

\* let mut buffer = Vec::new(); buffer.push(<count>u8) of the next fixture
\* generator, in the order main runs them
BeginFixture ==
    \E k \in 1..Len(FixtureOrder) :
        /\ \/ pc = "idle" /\ k = 1
           \/ pc = "written" /\ k > 1 /\ gen = FixtureOrder[k - 1]
        /\ pc' = "building"
        /\ gen' = FixtureOrder[k]
        /\ buffer' = Append(<<>>, Fixture(FixtureOrder[k], PubkeyDefault).count)
        /\ plan' = <<>>
        /\ num' = 0
        /\ lamports' = 0
        /\ data' = <<>>
        /\ len' = u64(0)

\* the next statement of a fixture generator that appends a slot
FixtureStep ==
    /\ pc = "building"
    /\ gen \in Fixtures
    /\ Remaining > 0
    /\ \E key2 \in UniqueKeys :
        LET step == Fixture(gen, key2).steps[Len(plan) + 1]
            a == step.account
        IN  /\ plan' = Append(plan, step)
            /\ \/ /\ step.op = "serialize"
                  /\ LET r == serialize_account_solana_format(buffer, a.key,
                                 a.is_signer, a.is_writable, a.lamports, a.data,
                                 a.owner, a.executable, step.is_non_dup,
                                 step.dup_index)
                     IN  /\ buffer' = r.buffer
                         /\ lamports' = r.lamports
                         /\ data' = r.data
                         /\ len' = vec_len(a.data)
               \/ /\ step.op = "push"
                  /\ buffer' = Append(buffer, step.dup_index)
                  /\ UNCHANGED <<lamports, data, len>>
               \/ /\ step.op = "runtime"
                  /\ buffer' = serialize_account_info_as_runtime(a, buffer,
                                                                 step.is_non_dup)
                  /\ lamports' = a.lamports
                  /\ data' = a.data
                  /\ len' = vec_len(a.data)
    /\ UNCHANGED <<pc, gen, num>>

\* a generator of the same shape for a plan of n slots: the count byte first
BeginPlan ==
    /\ pc = "idle"
    /\ \E n \in PlanSizes :
        /\ num' = n
        /\ buffer' = Append(<<>>, as_u8(n))
    /\ pc' = "building"
    /\ gen' = "plan"
    /\ plan' = <<>>
    /\ UNCHANGED <<lamports, data, len>>

\* an Original slot: serialize_account_solana_format with is_non_dup = true
PlanOriginal ==
    /\ pc = "building"
    /\ gen = "plan"
    /\ Remaining > 0
    /\ \E a \in (IF num > MaxSlots THEN {BoundaryAccount} ELSE PlanAccounts) :
        LET r == serialize_account_solana_format(buffer, a.key, a.is_signer,
                    a.is_writable, a.lamports, a.data, a.owner, a.executable,
                    TRUE, 0)
        IN  /\ buffer' = r.buffer
            /\ lamports' = r.lamports
            /\ data' = r.data
            /\ len' = vec_len(a.data)
            /\ plan' = Append(plan, Call(a, TRUE, 0))
    /\ UNCHANGED <<pc, gen, num>>

\* a duplicate slot: serialize_account_solana_format with is_non_dup = false
PlanDuplicate ==
    /\ pc = "building"
    /\ gen = "plan"
    /\ Remaining > 0
    /\ num <= MaxSlots
    /\ \E i \in DupIndices :
        LET a == DupCallAccount
            r == serialize_account_solana_format(buffer, a.key, a.is_signer,
                    a.is_writable, a.lamports, a.data, a.owner, a.executable,
                    FALSE, i)
        IN  /\ buffer' = r.buffer
            /\ lamports' = r.lamports
            /\ data' = r.data
            /\ plan' = Append(plan, Call(a, FALSE, i))
    /\ UNCHANGED <<pc, gen, num, len>>

\* File::create(..); file.write_all(&buffer): the generator is through
WriteFile ==
    /\ pc = "building"
    /\ gen \in Fixtures \cup {"plan"}
    /\ Remaining = 0
    /\ pc' = "written"
    /\ UNCHANGED <<gen, buffer, plan, num, lamports, data, len>>

Next ==
    \/ BeginFixture
    \/ FixtureStep
    \/ BeginPlan
    \/ PlanOriginal
    \/ PlanDuplicate
    \/ WriteFile

Spec == Init /\ [][Next]_vars

----------------------------------------------------------------------------
(* The record header for data of any length, 2^32 bytes and more included: *)
(* the data bytes themselves are not written down                          *)

\* buffer.push(1u8) of a generator of one slot
BeginWide ==
    /\ pc = "idle"
    /\ pc' = "building"
    /\ gen' = "wide"
    /\ buffer' = Append(<<>>, 1)
    /\ UNCHANGED <<plan, num, lamports, data, len>>

\* serialize_account_solana_format with is_non_dup = true, up to and
\* including the data_len field, for data of data.len() = w bytes
HeaderWide ==
    /\ pc = "building"
    /\ gen = "wide"
    /\ \E a \in PlanAccounts, w \in WideLens :
        /\ buffer' = non_dup_header(buffer, a.key, a.is_signer, a.is_writable,
                                    a.lamports, w, a.owner, a.executable)
        /\ len' = w
        /\ lamports' = a.lamports
    /\ pc' = "header"
    /\ UNCHANGED <<gen, plan, num, data>>

NextLen ==
    \/ BeginWide
    \/ HeaderWide

SpecLen == Init /\ [][NextLen]_vars

----------------------------------------------------------------------------
(* serialize_account_info_as_runtime on a runtime_buffer, for every flag   *)
(* combination and for data of any length                                  *)

\* the accounts passed: every combination of the three flags, data of 0 to
\* MaxDataLen bytes (253, 254, 255, ...), key, owner and lamports that differ
RuntimeAccounts ==
    { AccountInfo(PubkeyFirstByte(n + 1), s, w, 65536 * n + 1000,
                  [i \in 1..n |-> (252 + i) % 256], PubkeyFirstByte(7), x) :
        n \in 0..MaxDataLen, s \in BOOLEAN, w \in BOOLEAN, x \in BOOLEAN }

\* let mut runtime_buffer = Vec::new(); runtime_buffer.push(<count>u8)
BeginRuntime ==
    /\ pc = "idle"
    /\ \E n \in 1..MaxCalls :
        /\ num' = n
        /\ buffer' = Append(<<>>, as_u8(n))
    /\ pc' = "building"
    /\ gen' = "runtime"
    /\ plan' = <<>>
    /\ UNCHANGED <<lamports, data, len>>

\* serialize_account_info_as_runtime(&account, &mut runtime_buffer, true)
RuntimeOriginal ==
    /\ pc = "building"
    /\ gen = "runtime"
    /\ Len(plan) < num
    /\ \E a \in RuntimeAccounts :
        /\ buffer' = serialize_account_info_as_runtime(a, buffer, TRUE)
        /\ plan' = Append(plan, Runtime(a, TRUE))
        /\ lamports' = a.lamports
        /\ data' = a.data
        /\ len' = vec_len(a.data)
    /\ UNCHANGED <<pc, gen, num>>

\* serialize_account_info_as_runtime(&account, &mut runtime_buffer, false)
RuntimeDuplicate ==
    /\ pc = "building"
    /\ gen = "runtime"
    /\ Len(plan) < num
    /\ buffer' = serialize_account_info_as_runtime(DupCallAccount, buffer, FALSE)
    /\ plan' = Append(plan, Runtime(DupCallAccount, FALSE))
    /\ UNCHANGED <<pc, gen, num, lamports, data, len>>

\* serialize_account_info_as_runtime with is_non_dup = true, up to and
\* including the data_len field, for an account whose data is w bytes long
\* (the data bytes are not written down)
RuntimeHeaderWide ==
    /\ pc = "building"
    /\ gen = "runtime"
    /\ Len(plan) = 0
    /\ \E a \in RuntimeAccounts, w \in WideLens :
        /\ buffer' = runtime_header(a, buffer, w)
        /\ plan' = Append(plan, Runtime([a EXCEPT !.data = <<>>], TRUE))
        /\ lamports' = a.lamports
        /\ len' = w
    /\ pc' = "header"
    /\ UNCHANGED <<gen, num, data>>

NextAgree ==
    \/ BeginRuntime
    \/ RuntimeOriginal
    \/ RuntimeDuplicate
    \/ RuntimeHeaderWide

SpecAgree == Init /\ [][NextAgree]_vars

----------------------------------------------------------------------------
(* The sequential reader of a buffer (spec.md, 4.2 Decoding) *)

\* from_le_bytes: the limbs of a little-endian field, two bytes per limb
from_le_bytes(bs) == [i \in 1..(Len(bs) \div 2) |-> bs[2 * i - 1] + 256 * bs[2 * i]]

\* whether a 64-bit value is below 2^31
IsSmall(w) == w[2] < 32768 /\ w[3] = 0 /\ w[4] = 0

\* the number a 64-bit value below 2^31 stands for
AsNat(w) == w[1] + 65536 * w[2]

MalformedBuffer == [ok |-> FALSE, slots |-> <<>>, end |-> 0]

\* the slot a full record at index pos of buf decodes to: the fields at their
\* offsets, its data being the dl bytes after a header of hdr bytes
DecodeRecord(buf, pos, hdr, dl) ==
    [is_non_dup |-> TRUE,
     account |->
        [key |-> SubSeq(buf, pos + 9, pos + 40),
         is_signer |-> buf[pos + 2] # 0,
         is_writable |-> buf[pos + 3] # 0,
         lamports |-> from_le_bytes(SubSeq(buf, pos + 73, pos + 80)),
         data |-> SubSeq(buf, pos + hdr, pos + hdr + dl - 1),
         owner |-> SubSeq(buf, pos + 41, pos + 72),
         executable |-> buf[pos + 4] # 0],
     dup_index |-> buf[pos + 1]]

\* one slot read at index pos: a full record, a header of hdr bytes and
\* data_len data bytes, if the byte there is 0xFF, a duplicate index otherwise
DecodeSlot(buf, pos, hdr) ==
    IF pos > Len(buf) THEN MalformedBuffer
    ELSE IF buf[pos] = 255
    THEN IF pos + 88 > Len(buf) THEN MalformedBuffer
         ELSE LET data_len == from_le_bytes(SubSeq(buf, pos + 81, pos + 88))
              IN  IF ~IsSmall(data_len) THEN MalformedBuffer
                  ELSE IF pos + hdr + AsNat(data_len) - 1 > Len(buf)
                  THEN MalformedBuffer
                  ELSE [ok |-> TRUE,
                        slots |-> <<DecodeRecord(buf, pos, hdr, AsNat(data_len))>>,
                        end |-> pos + hdr + AsNat(data_len) - 1]
    ELSE [ok |-> TRUE,
          slots |-> <<[is_non_dup |-> FALSE, account |-> NullAccount,
                       dup_index |-> buf[pos]]>>,
          end |-> pos]

\* the walk over n slots, the first at index pos: the first n \div 2 slots,
\* then the others from where those ended (the walk is sequential; it is
\* split in two so that its evaluation nests n's logarithm deep, not n)
RECURSIVE DecodeSlots(_, _, _, _)
DecodeSlots(buf, pos, hdr, n) ==
    IF n = 0 THEN [ok |-> TRUE, slots |-> <<>>, end |-> pos - 1]
    ELSE IF n = 1 THEN DecodeSlot(buf, pos, hdr)
    ELSE LET first == DecodeSlots(buf, pos, hdr, n \div 2)
         IN  IF ~first.ok THEN MalformedBuffer
             ELSE LET rest == DecodeSlots(buf, first.end + 1, hdr, n - (n \div 2))
                  IN  IF ~rest.ok THEN MalformedBuffer
                      ELSE [ok |-> TRUE, slots |-> first.slots \o rest.slots,
                            end |-> rest.end]

\* decode: slot_count from the first byte, then that many slots
Decode(buf, hdr) ==
    IF Len(buf) = 0 THEN MalformedBuffer
    ELSE DecodeSlots(buf, 2, hdr, buf[1])

----------------------------------------------------------------------------
(* Vocabulary of the properties *)

\* the generators that encode with serialize_account_solana_format
EncoderGens == (Fixtures \ {"solana_actual_accountinfo.bin"}) \cup {"plan"}

RECURSIVE SumData(_, _, _)
\* total data length of the Original slots among slots lo..hi of p
SumData(p, lo, hi) ==
    IF lo > hi THEN 0
    ELSE IF lo = hi
    THEN (IF p[lo].is_non_dup THEN Len(p[lo].account.data) ELSE 0)
    ELSE LET mid == (lo + hi) \div 2
         IN  SumData(p, lo, mid) + SumData(p, mid + 1, hi)

\* number of Original slots of p
NumOriginal(p) == Cardinality({i \in 1..Len(p) : p[i].is_non_dup})

\* number of duplicate slots of p
NumDuplicate(p) == Cardinality({i \in 1..Len(p) : ~p[i].is_non_dup})

\* bytes of the record of one slot, a full record with empty data taking e
\* bytes and any other full record 89 bytes and its data
RecLen(slot, e) ==
    IF ~slot.is_non_dup THEN 1
    ELSE IF slot.account.data = <<>> THEN e
    ELSE 89 + Len(slot.account.data)

RECURSIVE SumLen(_, _, _, _)
\* bytes of the records of slots lo..hi of p
SumLen(p, lo, hi, e) ==
    IF lo > hi THEN 0
    ELSE IF lo = hi THEN RecLen(p[lo], e)
    ELSE LET mid == (lo + hi) \div 2
         IN  SumLen(p, lo, mid, e) + SumLen(p, mid + 1, hi, e)

\* index in the buffer of the first byte of each slot's record, the count
\* byte being at index 1
Starts(p, e) == [i \in 1..Len(p) |-> 2 + SumLen(p, 1, i - 1, e)]

\* byte k (0 the lowest) of the little-endian form of n < 2^31
LeByte(n, k) ==
    CASE k = 0 -> n % 256
      [] k = 1 -> (n \div 256) % 256
      [] k = 2 -> (n \div 65536) % 256
      [] k = 3 -> (n \div 16777216) % 256
      [] OTHER -> 0

\* a duplicate slot at position i (counted from 1) names a prior Original slot
ValidDup(p, i) ==
    /\ p[i].dup_index < i - 1
    /\ p[p[i].dup_index + 1].is_non_dup

InvalidDups(p) == {i \in 1..Len(p) : ~p[i].is_non_dup /\ ~ValidDup(p, i)}

\* a valid plan: at most 255 slots, every duplicate index names a prior
\* Original slot and is not 0xFF
ValidPlan(p) ==
    /\ Len(p) <= 255
    /\ InvalidDups(p) = {}
    /\ \A i \in 1..Len(p) : ~p[i].is_non_dup => p[i].dup_index # 255

\* what a reader is to get back for a slot
SlotOf(step) ==
    IF step.is_non_dup
    THEN [is_non_dup |-> TRUE,
          account |-> [step.account EXCEPT !.lamports = u64(@)],
          dup_index |-> 255]
    ELSE [is_non_dup |-> FALSE, account |-> NullAccount,
          dup_index |-> step.dup_index]

----------------------------------------------------------------------------
(* C1: size law *)

SizeLaw(hdr) ==
    Len(buffer) = 1 + NumOriginal(plan) * hdr + SumData(plan, 1, Len(plan))
                    + NumDuplicate(plan)

\* C1, as the spec states it: the encoded buffer of a plan with k Original
\* slots of data lengths d_1..d_k and m duplicate slots has length
\* 1 + k*88 + sum(d_i) + m.
C1_SizeLaw_Original ==
    (pc = "written" /\ gen \in EncoderGens) => SizeLaw(88)

\* C1, amended: the encoded buffer of a plan with k Original slots of data
\* lengths d_1..d_k and m duplicate slots has length 1 + k*89 + sum(d_i) + m,
\* and so has every prefix of it that ends with a slot's record.
C1_SizeLaw ==
    (pc # "idle" /\ gen \in EncoderGens) => SizeLaw(89)

\* a written plan with two Original slots of different data lengths and a
\* duplicate slot
C1_Witness ==
    /\ pc = "written" /\ gen = "plan"
    /\ NumOriginal(plan) = 2 /\ NumDuplicate(plan) = 1
    /\ SumData(plan, 1, Len(plan)) = 7

----------------------------------------------------------------------------
(* C2: round trip *)

RoundTrips(hdr) ==
    LET d == Decode(buffer, hdr)
    IN  /\ d.ok
        /\ d.slots = [i \in 1..Len(plan) |-> SlotOf(plan[i])]
        /\ d.end = Len(buffer)

\* C2, as the spec states it: for every valid plan the sequential walk that
\* parses an 88-byte header and skips data_len data bytes for a slot whose
\* first byte is 0xFF, and takes the single byte as a duplicate index
\* otherwise, yields the plan's slots and ends at the end of the buffer.
C2_RoundTrip_Original ==
    (pc = "written" /\ gen \in EncoderGens /\ ValidPlan(plan)) => RoundTrips(88)

\* C2, amended: for every valid plan the sequential walk that parses an
\* 89-byte header and skips data_len data bytes for a slot whose first byte
\* is 0xFF, and takes the single byte as a duplicate index otherwise, yields
\* the plan's slots (identifiers, owners, lamports, flags, data bytes,
\* duplicate indices) and ends exactly at the end of the buffer.
C2_RoundTrip ==
    (pc = "written" /\ gen \in EncoderGens /\ ValidPlan(plan)) => RoundTrips(89)

\* a written valid plan of three slots, one a duplicate, one with 0xFF among
\* its data bytes
C2_Witness ==
    /\ pc = "written" /\ gen = "plan" /\ ValidPlan(plan)
    /\ Len(plan) = 3
    /\ \E i \in 1..3 : ~plan[i].is_non_dup
    /\ \E i \in 1..3 : /\ plan[i].is_non_dup
                       /\ \E k \in 1..Len(plan[i].account.data) :
                            plan[i].account.data[k] = 255

----------------------------------------------------------------------------
(* C3: record layout *)

\* the record of account a begins at index s of the buffer
LayoutAt(s, a) ==
    /\ buffer[s] = 255
    /\ buffer[s + 1] = 255
    /\ buffer[s + 2] = (IF a.is_signer THEN 1 ELSE 0)
    /\ buffer[s + 3] = (IF a.is_writable THEN 1 ELSE 0)
    /\ buffer[s + 4] = (IF a.executable THEN 1 ELSE 0)
    /\ \A k \in 0..3 : buffer[s + 5 + k] = LeByte(Len(a.data), k)
    /\ \A k \in 0..31 : buffer[s + 9 + k] = a.key[k + 1]
    /\ \A k \in 0..31 : buffer[s + 41 + k] = a.owner[k + 1]
    /\ \A k \in 0..7 : buffer[s + 73 + k] = LeByte(a.lamports, k)
    /\ \A k \in 0..7 : buffer[s + 81 + k] = LeByte(Len(a.data), k)
    /\ \A k \in 1..Len(a.data) : buffer[s + 88 + k] = a.data[k]

\* every record is where the lengths put it, a full record with empty data
\* taking e bytes, and the buffer ends with the last record
RecordLayout(e) ==
    LET st == Starts(plan, e)
        n == Len(plan)
    IN  /\ Len(buffer) = IF n = 0 THEN 1 ELSE st[n] + RecLen(plan[n], e) - 1
        /\ \A i \in 1..n : plan[i].is_non_dup => LayoutAt(st[i], plan[i].account)

\* C3, as the spec states it: the bytes of an Original record are 0xFF, 0xFF,
\* the three flags, original_data_len (offsets 5..8), identifier (9..40),
\* owner (41..72), lamports (73..80), data_len (81..88), then the data bytes;
\* with empty data the record is exactly 88 bytes.
C3_RecordLayout_Original ==
    (pc # "idle" /\ gen \in EncoderGens) => RecordLayout(88)

\* C3, amended: the bytes of an Original record are 0xFF (offset 0), 0xFF (1),
\* is_signer (2), is_writable (3), executable (4) as 0 or 1, original_data_len
\* as 4 bytes little-endian (5..8), identifier (9..40), owner (41..72),
\* lamports as 8 bytes little-endian (73..80), data_len as 8 bytes
\* little-endian (81..88), then exactly data_len data bytes in their order;
\* with empty data the record is exactly 89 bytes, both length fields zero.
C3_RecordLayout ==
    (pc # "idle" /\ gen \in EncoderGens) => RecordLayout(89)

\* an Original record with empty data, followed by an Original record whose
\* lamports take four bytes and whose identifier and owner differ
C3_Witness ==
    /\ gen = "plan" /\ Len(plan) = 2
    /\ plan[1].is_non_dup /\ plan[1].account.data = <<>>
    /\ plan[2].is_non_dup /\ plan[2].account.lamports = 16909060

----------------------------------------------------------------------------
(* C4: discriminant rule *)

\* C4: in every buffer the encoder produces, the first byte of a slot's
\* record is 0xFF if and only if the slot is Original, whatever dup_index is
\* passed with is_non_dup = false.
C4_Discriminant ==
    (pc # "idle" /\ gen \in EncoderGens) =>
        LET st == Starts(plan, 89)
        IN  \A i \in 1..Len(plan) : (buffer[st[i]] = 255) <=> plan[i].is_non_dup

----------------------------------------------------------------------------
(* C5: invalid duplicate references *)

\* C5: no buffer is produced for a plan with a DuplicateOf slot whose index
\* is out of range, is not smaller than the slot's own position, or names a
\* slot that is not Original.
C5_InvalidDuplicateRejected ==
    ~(pc = "written" /\ gen = "plan" /\ InvalidDups(plan) # {})

----------------------------------------------------------------------------
(* C6: slot-count boundary *)

\* C6: a written plan of 255 Original slots has 0xFF as its first byte; a
\* plan of 256 slots is rejected (PlanTooLarge), so that no slot of it is
\* encoded; and in every buffer produced the one-byte slot_count equals the
\* number of slot records after it.
C6_SlotCountBoundary ==
    /\ (pc = "written" /\ gen = "plan" /\ num = 255) => buffer[1] = 255
    /\ (gen = "plan" /\ num = 256) => Len(plan) = 0
    /\ (pc = "written" /\ gen \in EncoderGens) => buffer[1] = Len(plan)

----------------------------------------------------------------------------
(* C7: atomic encoding *)

\* C7: when the plan has more than 255 slots or holds an invalid duplicate
\* reference, no byte of output exists, whatever valid slots came first.
C7_AtomicEncoding ==
    (gen = "plan" /\ (num > 255 \/ InvalidDups(plan) # {})) => buffer = <<>>

----------------------------------------------------------------------------
(* C8: length-field agreement *)

\* C8: in every Original record the 4-byte original_data_len field and the
\* 8-byte data_len field carry the same value, the number of data bytes of
\* the record, for every data length.
C8_LengthFieldAgreement ==
    (gen = "wide" /\ pc = "header") =>
        LET original_data_len == from_le_bytes(SubSeq(buffer, 7, 10))
            data_len == from_le_bytes(SubSeq(buffer, 83, 90))
        IN  /\ original_data_len \o <<0, 0>> = data_len
            /\ data_len = len

----------------------------------------------------------------------------
(* C9: fixture well-formedness *)

\* the count byte each generator pushes first, as the claim lists them
ClaimedCount(g) ==
    CASE g = "solana_single_account.bin" -> 1
      [] g = "solana_multiple_accounts.bin" -> 3
      [] g = "empty_data_accounts.bin" -> 2
      [] g = "solana_accounts_with_duplicates.bin" -> 5
      [] g = "solana_complex_iteration.bin" -> 10
      [] g = "solana_actual_accountinfo.bin" -> 2

\* the duplicate slots of each fixture, slot -> index, both counted from 0
ClaimedDups(g) ==
    CASE g = "solana_accounts_with_duplicates.bin" -> {<<2, 0>>, <<4, 1>>}
      [] g = "solana_complex_iteration.bin" -> {<<4, 1>>, <<7, 2>>}
      [] OTHER -> {}

\* C9: in each buffer the fixture generators and test_with_actual_account_info
\* build, the count byte equals the number of slot records appended after it
\* (1, 3, 2, 5, 10 and 2), those records being all the bytes after the count
\* byte, and every duplicate byte (slots 2->0 and 4->1 of the five-slot
\* fixture, 4->1 and 7->2 of the ten-slot one) is the index of an earlier
\* slot appended as an Original record.
C9_FixtureWellFormed ==
    (pc = "written" /\ gen \in Fixtures) =>
        LET st == Starts(plan, 89)
        IN  /\ buffer[1] = Len(plan)
            /\ buffer[1] = ClaimedCount(gen)
            /\ Len(buffer) = 1 + SumLen(plan, 1, Len(plan), 89)
            /\ {<<i - 1, buffer[st[i]]>> : i \in {j \in 1..Len(plan) : buffer[st[j]] # 255}}
                  = ClaimedDups(gen)
            /\ \A i \in 1..Len(plan) :
                  ~plan[i].is_non_dup =>
                      /\ buffer[st[i]] < i - 1
                      /\ plan[buffer[st[i]] + 1].is_non_dup
                      /\ buffer[st[buffer[st[i]] + 1]] = 255

\* all six files have been written, the last by test_with_actual_account_info
C9_Witness ==
    pc = "written" /\ gen = "solana_actual_accountinfo.bin" /\ Len(plan) = 2

----------------------------------------------------------------------------
(* C10: append-only frame *)

\* the record a slot's step appends to an empty buffer
RecordOf(s) ==
    IF s.op = "serialize"
    THEN serialize_account_solana_format(<<>>, s.account.key,
             s.account.is_signer, s.account.is_writable, s.account.lamports,
             s.account.data, s.account.owner, s.account.executable,
             s.is_non_dup, s.dup_index).buffer
    ELSE <<s.dup_index>>

RECURSIVE Concat(_, _, _)
\* the records of slots lo..hi of p, one after the other
Concat(p, lo, hi) ==
    IF lo > hi THEN <<>>
    ELSE IF lo = hi THEN RecordOf(p[lo])
    ELSE LET mid == (lo + hi) \div 2
         IN  Concat(p, lo, mid) \o Concat(p, mid + 1, hi)

\* a step that is a call of serialize_account_solana_format keeps the bytes
\* the buffer held, grows it by hdr + data.len() bytes (is_non_dup) or by one
\* byte, and leaves the lamports and data it was passed as they were; the
\* buffer is then the count byte and the records of the calls, in call order
FrameStep(hdr) ==
    (Len(plan') = Len(plan) + 1 /\ plan'[Len(plan')].op = "serialize") =>
        LET s == plan'[Len(plan')]
        IN  /\ SubSeq(buffer', 1, Len(buffer)) = buffer
            /\ Len(buffer') = Len(buffer)
                  + (IF s.is_non_dup THEN hdr + Len(s.account.data) ELSE 1)
            /\ lamports' = s.account.lamports
            /\ data' = s.account.data
            /\ buffer' = <<buffer[1]>> \o Concat(plan', 1, Len(plan'))

\* C10, as the claim states it: every call of serialize_account_solana_format
\* leaves the bytes already in the buffer unchanged, grows the buffer by
\* exactly 88 + data.len() bytes (is_non_dup) or by exactly 1 byte, and
\* leaves lamports and data unchanged.
C10_AppendOnly_Original == [][FrameStep(88)]_vars

\* C10, amended: every call of serialize_account_solana_format leaves the
\* bytes already in the buffer unchanged and at the same offsets, grows the
\* buffer by exactly 89 + data.len() bytes when is_non_dup is true and by
\* exactly 1 byte when it is false, and leaves the lamports value and the
\* data bytes it was passed unchanged; after any sequence of calls the
\* buffer is the concatenation, in call order, of the calls' records.
C10_AppendOnly == [][FrameStep(89)]_vars

\* a duplicate call has followed an Original call, and the caller's locals
\* hold what the duplicate call was passed
C10_Witness ==
    /\ gen = "plan" /\ Len(plan) = 2
    /\ plan[1].is_non_dup /\ ~plan[2].is_non_dup
    /\ lamports = 77 /\ data = <<1, 2>>
    /\ Len(buffer) > 90

----------------------------------------------------------------------------
(* C11: serializer agreement *)

\* a step that is a call of serialize_account_info_as_runtime with
\* is_non_dup = true leaves the buffer as serialize_account_solana_format
\* with is_non_dup = true would, given the same identifier, owner, lamports,
\* data and flags, whatever dup_index it is passed; for data too long to
\* write down, the same through the data_len field
AgreeStep ==
    (/\ Len(plan') = Len(plan) + 1
     /\ plan'[Len(plan')].op = "runtime"
     /\ plan'[Len(plan')].is_non_dup) =>
        LET a == plan'[Len(plan')].account
        IN  IF pc' = "header"
            THEN buffer' = non_dup_header(buffer, a.key, a.is_signer,
                               a.is_writable, a.lamports, len', a.owner,
                               a.executable)
            ELSE \A i \in DupIndices :
                    buffer' = serialize_account_solana_format(buffer, a.key,
                                  a.is_signer, a.is_writable, a.lamports,
                                  a.data, a.owner, a.executable, TRUE, i).buffer

\* C11: for the same identifier, owner, lamports, data and three flags,
\* serialize_account_info_as_runtime with is_non_dup = true appends exactly
\* the byte sequence serialize_account_solana_format with is_non_dup = true
\* appends, for every data length and every flag combination.
C11_SerializerAgreement == [][AgreeStep]_vars

\* two calls of serialize_account_info_as_runtime have appended records: one
\* with all flags false and empty data, one with all flags true and data of
\* MaxDataLen bytes
C11_Witness ==
    /\ gen = "runtime" /\ pc = "building" /\ Len(plan) = 2
    /\ plan[1].is_non_dup /\ plan[2].is_non_dup
    /\ ~plan[1].account.is_signer /\ ~plan[1].account.is_writable
    /\ ~plan[1].account.executable /\ plan[1].account.data = <<>>
    /\ plan[2].account.is_signer /\ plan[2].account.is_writable
    /\ plan[2].account.executable /\ Len(plan[2].account.data) = MaxDataLen
    /\ Len(buffer) = 1 + 89 + 89 + MaxDataLen

\* the header of an account whose data is 2^32 bytes or more has been written
C11_WitnessWide ==
    gen = "runtime" /\ pc = "header" /\ len[3] = 1

====
